---------------------------- MODULE Spec2Model ----------------------------
(***************************************************************************)
(* A model of the two leaf components of the Vyper editor extension:       *)
(*   - formatBuiltin      (src/src/features/formatter.js)                  *)
(*   - parseErrorMessage  (features/compile.js, src/unnamed/part_000)      *)
(*                                                                         *)
(* Texts are sequences of one-character strings.  A placeholder token      *)
(* `__PLACEHOLDER_<i>__` written by mask() is kept as ONE element of the   *)
(* sequence (the string "__PLACEHOLDER_<i>__"): the documents of the model *)
(* hold no capital letters, so the reserved pattern can only have been     *)
(* written by mask(), and every character of it is a word character, which *)
(* is all the later regular expressions look at.                           *)
(***************************************************************************)
EXTENDS Naturals, Integers, Sequences, FiniteSets, TLC

VARIABLES
    text,          \* formatBuiltin: the argument of the current call
    placeholders,  \* formatBuiltin: the placeholder table
    maskedText,    \* formatBuiltin: the working text
    pc,            \* the step the current call is at
    ret,           \* the value the current call returned (when pc = "done")
    calls,         \* the number of calls of formatBuiltin started so far
    errormsg,      \* parseErrorMessage: its argument
    parsed,        \* parseErrorMessage: the {shortmsg, lineNr} it returned
    attempts,      \* compileActiveFileCommand: the calls for one resource, in the order they started
    diagnostics    \* diagnosticCollections.compiler: the records it holds for that resource

vars == <<text, placeholders, maskedText, pc, ret, calls, errormsg, parsed, attempts, diagnostics>>

(***************************************************************************)
(* Character classes of the regular expressions.                           *)
(***************************************************************************)
Digits == {"0", "1", "2", "3", "4", "5", "6", "7", "8", "9"}

LowerCase ==
    {"a", "b", "c", "d", "e", "f", "g", "h", "i", "j", "k", "l", "m",
     "n", "o", "p", "q", "r", "s", "t", "u", "v", "w", "x", "y", "z"}

UpperCase ==
    {"A", "B", "C", "D", "E", "F", "G", "H", "I", "J", "K", "L", "M",
     "N", "O", "P", "Q", "R", "S", "T", "U", "V", "W", "X", "Y", "Z"}

\* mask(): the token written for the entry at index i of the table.
Placeholder(i) == "__PLACEHOLDER_" \o ToString(i) \o "__"

\* The largest table the documents of the model can fill.
MaxPlaceholders == 12

PlaceholderTokens == {Placeholder(i) : i \in 0..MaxPlaceholders}

IsPlaceholder(c) == c \in PlaceholderTokens

\* parseInt(index) of the restore callback.
PlaceholderIndex(c) == CHOOSE i \in 0..MaxPlaceholders : Placeholder(i) = c

\* \w (a placeholder token is made of word characters only)
IsWord(c) == c \in Digits \cup LowerCase \cup UpperCase \cup {"_"} \/ IsPlaceholder(c)

\* \s
IsSpace(c) == c \in {" ", "\t", "\n", "\r"}

\* . (any character but a line terminator)
IsLineTerminator(c) == c \in {"\n", "\r"}

\* s[i], or "" (no character) outside the text
At(s, i) == IF i >= 1 /\ i <= Len(s) THEN s[i] ELSE ""

\* whether the characters of w stand in s from index i on
StartsAt(s, i, w) ==
    /\ i + Len(w) - 1 <= Len(s)
    /\ \A k \in 1..Len(w) : s[i + k - 1] = w[k]

\* the index after the longest run of characters of class C that starts at i
RECURSIVE RunEnd(_, _, _)
RunEnd(s, i, C) ==
    IF i <= Len(s) /\ s[i] \in C THEN RunEnd(s, i + 1, C) ELSE i

\* \s* : the index after the whitespace that starts at i
RECURSIVE SkipSpace(_, _)
SkipSpace(s, i) ==
    IF i <= Len(s) /\ IsSpace(s[i]) THEN SkipSpace(s, i + 1) ELSE i

\* \b between s[i-1] and s[i]
WordBoundary(s, i) == IsWord(At(s, i - 1)) # IsWord(At(s, i))

\* the concatenation of a sequence of texts
RECURSIVE Flatten(_)
Flatten(ss) == IF ss = <<>> THEN <<>> ELSE Head(ss) \o Flatten(Tail(ss))

(***************************************************************************)
(* Step 1: stringCommentPattern                                            *)
(*   """[\s\S]*?""" | '''[\s\S]*?''' | "(?:[^"\\]|\\.)*" |                 *)
(*   '(?:[^'\\]|\\.)*' | #[^\r\n]*                                         *)
(* Each operator gives the index of the last character of the match that   *)
(* starts at i, or 0 when that alternative does not match at i.            *)
(***************************************************************************)
\* q q q [\s\S]*? q q q : lazy, so the first closing triple wins
TripleQuotedEnd(s, i, q) ==
    IF ~StartsAt(s, i, <<q, q, q>>) THEN 0
    ELSE LET closes == {j \in (i + 3)..Len(s) : StartsAt(s, j, <<q, q, q>>)}
         IN  IF closes = {} THEN 0
             ELSE (CHOOSE j \in closes : \A k \in closes : j <= k) + 2

\* the body (?:[^q\\]|\\.)* of a quoted string followed by the closing q
RECURSIVE QuotedBodyEnd(_, _, _)
QuotedBodyEnd(s, k, q) ==
    IF k > Len(s) THEN 0
    ELSE IF s[k] = q THEN k
    ELSE IF s[k] = "\\"
         THEN IF k + 1 <= Len(s) /\ ~IsLineTerminator(s[k + 1])
              THEN QuotedBodyEnd(s, k + 2, q)
              ELSE 0
    ELSE QuotedBodyEnd(s, k + 1, q)

QuotedEnd(s, i, q) == IF At(s, i) = q THEN QuotedBodyEnd(s, i + 1, q) ELSE 0

\* #[^\r\n]*
CommentEnd(s, i) ==
    IF At(s, i) = "#" THEN RunEnd(s, i + 1, {c \in {s[k] : k \in 1..Len(s)} : ~IsLineTerminator(c)}) - 1
    ELSE 0

\* the alternatives in the order of the pattern
stringCommentPattern(s, i) ==
    IF TripleQuotedEnd(s, i, "\"") > 0 THEN TripleQuotedEnd(s, i, "\"")
    ELSE IF TripleQuotedEnd(s, i, "'") > 0 THEN TripleQuotedEnd(s, i, "'")
    ELSE IF QuotedEnd(s, i, "\"") > 0 THEN QuotedEnd(s, i, "\"")
    ELSE IF QuotedEnd(s, i, "'") > 0 THEN QuotedEnd(s, i, "'")
    ELSE CommentEnd(s, i)

(***************************************************************************)
(* Step 2: numberPattern                                                   *)
(*   \b(?: 0x[0-9a-fA-F_]+ | 0b[01_]+ | DEC FRAC? EXP? )\b                 *)
(*   DEC = \d[\d_]*    FRAC = \.[\d_]*    EXP = [eE][+-]?[\d_]+            *)
(* The candidates are the ends the backtracking matcher tries, in the      *)
(* order it tries them; the match is the first that the final \b accepts.  *)
(***************************************************************************)
HexChars == Digits \cup {"a", "b", "c", "d", "e", "f", "A", "B", "C", "D", "E", "F", "_"}

\* the ends lo..hi from the greedy (longest) one down
RECURSIVE Downto(_, _)
Downto(hi, lo) == IF hi < lo THEN <<>> ELSE <<hi>> \o Downto(hi - 1, lo)

\* prefix x/b then one or more characters of class C: ends of the match at i
PrefixedEnds(s, i, p, C) ==
    IF StartsAt(s, i, <<"0", p>>)
    THEN Downto(RunEnd(s, i + 2, C) - 1, i + 2)
    ELSE <<>>

\* EXP? from index k on: ends, the empty match (k - 1) last
ExponentEnds(s, k) ==
    IF At(s, k) \in {"e", "E"}
    THEN LET withSign == IF At(s, k + 1) \in {"+", "-"}
                         THEN Downto(RunEnd(s, k + 2, Digits \cup {"_"}) - 1, k + 2)
                         ELSE <<>>
             noSign == Downto(RunEnd(s, k + 1, Digits \cup {"_"}) - 1, k + 1)
         IN  withSign \o noSign \o <<k - 1>>
    ELSE <<k - 1>>

\* FRAC? followed by EXP?, from index k on
FractionEnds(s, k) ==
    LET withDot == IF At(s, k) = "."
                   THEN Flatten([n \in 1..(RunEnd(s, k + 1, Digits \cup {"_"}) - k) |->
                           ExponentEnds(s, RunEnd(s, k + 1, Digits \cup {"_"}) - n + 1)])
                   ELSE <<>>
    IN  withDot \o ExponentEnds(s, k)

\* DEC followed by FRAC? and EXP?
DecimalEnds(s, i) ==
    IF At(s, i) \in Digits
    THEN LET hi == RunEnd(s, i + 1, Digits \cup {"_"})
         IN  Flatten([n \in 1..(hi - i) |-> FractionEnds(s, hi - n + 1)])
    ELSE <<>>

numberPattern(s, i) ==
    IF ~WordBoundary(s, i) THEN 0
    ELSE LET ends == PrefixedEnds(s, i, "x", HexChars)
                     \o PrefixedEnds(s, i, "b", {"0", "1", "_"})
                     \o DecimalEnds(s, i)
             ok == {n \in 1..Len(ends) : WordBoundary(s, ends[n] + 1)}
         IN  IF ok = {} THEN 0
             ELSE ends[CHOOSE n \in ok : \A m \in ok : n <= m]

(***************************************************************************)
(* text.replace(pattern, mask): every match, left to right, is pushed on   *)
(* the table and replaced by the token of its index.                       *)
(***************************************************************************)
RECURSIVE MaskStringsFrom(_, _, _)
MaskStringsFrom(s, i, table) ==
    IF i > Len(s) THEN [masked |-> <<>>, table |-> table]
    ELSE LET e == stringCommentPattern(s, i)
         IN  IF e > 0
             THEN LET r == MaskStringsFrom(s, e + 1, Append(table, SubSeq(s, i, e)))
                  IN  [masked |-> <<Placeholder(Len(table))>> \o r.masked, table |-> r.table]
             ELSE LET r == MaskStringsFrom(s, i + 1, table)
                  IN  [masked |-> <<s[i]>> \o r.masked, table |-> r.table]

RECURSIVE MaskNumbersFrom(_, _, _)
MaskNumbersFrom(s, i, table) ==
    IF i > Len(s) THEN [masked |-> <<>>, table |-> table]
    ELSE LET e == numberPattern(s, i)
         IN  IF e > 0
             THEN LET r == MaskNumbersFrom(s, e + 1, Append(table, SubSeq(s, i, e)))
                  IN  [masked |-> <<Placeholder(Len(table))>> \o r.masked, table |-> r.table]
             ELSE LET r == MaskNumbersFrom(s, i + 1, table)
                  IN  [masked |-> <<s[i]>> \o r.masked, table |-> r.table]

(***************************************************************************)
(* Step 3: tabs and operators                                              *)
(***************************************************************************)
\* maskedText.replace(/\t/g, '    ')
RECURSIVE NormalizeTabs(_)
NormalizeTabs(s) ==
    IF s = <<>> THEN <<>>
    ELSE (IF Head(s) = "\t" THEN <<" ", " ", " ", " ">> ELSE <<Head(s)>>)
         \o NormalizeTabs(Tail(s))

\* Group 1, in the order of the alternation
alwaysBinaryOps ==
    << <<"/", "/">>, <<"-", ">">>,
       <<"=", "=">>, <<"!", "=">>, <<"<", "=">>, <<">", "=">>,
       <<"+", "=">>, <<"-", "=">>, <<"*", "=">>, <<"/", "=">>, <<"%", "=">>,
       <<"=">>, <<"/">>, <<"%">>, <<"<">>, <<">">> >>

\* Group 2, in the order of the alternation
ambiguousOps == << <<"*", "*">>, <<"+">>, <<"-">>, <<"*">> >>

\* (a|b|...) at index j: the first alternative that matches, or <<>>
FirstOp(s, j, ops) ==
    LET hits == {n \in 1..Len(ops) : StartsAt(s, j, ops[n])}
    IN  IF hits = {} THEN <<>>
        ELSE ops[CHOOSE n \in hits : \A m \in hits : n <= m]

\* (?<=[\w)\]]) before index i
Lookbehind(s, i) == IsWord(At(s, i - 1)) \/ At(s, i - 1) \in {")", "]"}

\* s.replace(/\s*(ops)\s*/g, ' $1 '), with the lookbehind when `behind`
RECURSIVE PadOpsFrom(_, _, _, _)
PadOpsFrom(s, i, ops, behind) ==
    IF i > Len(s) THEN <<>>
    ELSE LET j == SkipSpace(s, i)
             op == IF behind /\ ~Lookbehind(s, i) THEN <<>> ELSE FirstOp(s, j, ops)
         IN  IF op # <<>>
             THEN <<" ">> \o op \o <<" ">>
                  \o PadOpsFrom(s, SkipSpace(s, j + Len(op)), ops, behind)
             ELSE <<s[i]>> \o PadOpsFrom(s, i + 1, ops, behind)

safeRegex(s) == PadOpsFrom(s, 1, alwaysBinaryOps, FALSE)

ambiguousRegex(s) == PadOpsFrom(s, 1, ambiguousOps, TRUE)

\* s.replace(/\s*,\s*/g, ', ')
RECURSIVE CommaFrom(_, _)
CommaFrom(s, i) ==
    IF i > Len(s) THEN <<>>
    ELSE LET j == SkipSpace(s, i)
         IN  IF At(s, j) = ","
             THEN <<",", " ">> \o CommaFrom(s, SkipSpace(s, j + 1))
             ELSE <<s[i]>> \o CommaFrom(s, i + 1)

commaRegex(s) == CommaFrom(s, 1)

(***************************************************************************)
(* Step 4: line processing                                                 *)
(***************************************************************************)
\* s.split(/\r?\n/): the lines from index i on, one step for each line
RECURSIVE SplitFrom(_, _)
SplitFrom(s, i) ==
    LET feeds == {k \in i..Len(s) : s[k] = "\n"}
        n == CHOOSE k \in feeds : \A m \in feeds : k <= m
    IN  IF feeds = {} THEN <<SubSeq(s, i, Len(s))>>
        ELSE <<SubSeq(s, i, IF n > i /\ s[n - 1] = "\r" THEN n - 2 ELSE n - 1)>> \o SplitFrom(s, n + 1)

SplitLines(s) == SplitFrom(s, 1)

\* a trimEnd() that strips one character only (/\s$/ for /\s+$/)
TrimEndOnce(line) ==
    IF line # <<>> /\ IsSpace(line[Len(line)])
    THEN SubSeq(line, 1, Len(line) - 1)
    ELSE line

\* line.trimEnd()
RECURSIVE TrimEnd(_)
TrimEnd(line) ==
    IF line # <<>> /\ IsSpace(line[Len(line)])
    THEN TrimEnd(SubSeq(line, 1, Len(line) - 1))
    ELSE line

\* line.trim() === ''
IsBlank(line) == \A k \in 1..Len(line) : IsSpace(line[k])

\* the most blank lines in a row the loop lets through
MaxBlankLines == 2

\* a loop whose counter never passes the limit: every blank line is pushed
CollapseBlankCounterReset(lines, blankCount) ==
    [n \in 1..Len(lines) |-> IF IsBlank(lines[n]) THEN <<>> ELSE lines[n]]

\* for (const line of lines) { ... }
RECURSIVE CollapseBlank(_, _)
CollapseBlank(lines, blankCount) ==
    IF lines = <<>> THEN <<>>
    ELSE IF IsBlank(Head(lines))
         THEN (IF blankCount + 1 <= MaxBlankLines THEN << <<>> >> ELSE <<>>)
              \o CollapseBlank(Tail(lines), blankCount + 1)
         ELSE <<Head(lines)>> \o CollapseBlank(Tail(lines), 0)

\* a function without the loop that pops the trailing blank lines
PopBlankNever(result) == result

\* while (result.length > 0 && result[result.length - 1] === '') result.pop()
RECURSIVE PopBlank(_)
PopBlank(result) ==
    IF result # <<>> /\ result[Len(result)] = <<>>
    THEN PopBlank(SubSeq(result, 1, Len(result) - 1))
    ELSE result

\* result.join('\n')
RECURSIVE Join(_)
Join(result) ==
    IF result = <<>> THEN <<>>
    ELSE IF Len(result) = 1 THEN Head(result)
    ELSE Head(result) \o <<"\n">> \o Join(Tail(result))

ProcessLines(s) ==
    LET lines == [n \in 1..Len(SplitLines(s)) |-> TrimEnd(SplitLines(s)[n])]
    IN  Join(PopBlank(CollapseBlank(lines, 0))) \o <<"\n">>

(***************************************************************************)
(* Step 5: restore.  An index outside the table gives `undefined`, which   *)
(* replace() writes as the text "undefined".                               *)
(***************************************************************************)
Undefined == <<"u", "n", "d", "e", "f", "i", "n", "e", "d">>

\* a restore that tidies what it puts back: the entry without the
\* whitespace at its end
RestoreTokenTrimmed(c, table) ==
    IF IsPlaceholder(c)
    THEN IF PlaceholderIndex(c) + 1 <= Len(table) THEN TrimEnd(table[PlaceholderIndex(c) + 1])
         ELSE Undefined
    ELSE <<c>>

RestoreToken(c, table) ==
    IF IsPlaceholder(c)
    THEN IF PlaceholderIndex(c) + 1 <= Len(table) THEN table[PlaceholderIndex(c) + 1]
         ELSE Undefined
    ELSE <<c>>

Restore(s, table) == Flatten([k \in 1..Len(s) |-> RestoreToken(s[k], table)])

\* formatBuiltin as a function of its argument
formatBuiltin(t) ==
    LET m1 == MaskStringsFrom(t, 1, <<>>)
        m2 == MaskNumbersFrom(m1.masked, 1, m1.table)
    IN  Restore(ProcessLines(commaRegex(ambiguousRegex(safeRegex(NormalizeTabs(m2.masked))))),
                m2.table)

(***************************************************************************)
(* parseErrorMessage and extractLineNumber (features/compile.js).          *)
(***************************************************************************)
\* the texts the regular expressions spell out
LineWord == <<"l", "i", "n", "e">>

SyntaxErrorLine ==
    <<"S", "y", "n", "t", "a", "x", "E", "r", "r", "o", "r", ":", " ",
      "i", "n", "v", "a", "l", "i", "d", " ", "s", "y", "n", "t", "a", "x">>

VyperExceptions ==
    <<"v", "y", "p", "e", "r", ".", "e", "x", "c", "e", "p", "t", "i", "o", "n", "s", ".">>

ExceptionColon == <<"E", "x", "c", "e", "p", "t", "i", "o", "n", ":">>

\* \w+ : the index after the word characters that start at i
RECURSIVE SkipWord(_, _)
SkipWord(s, i) ==
    IF i <= Len(s) /\ IsWord(s[i]) THEN SkipWord(s, i + 1) ELSE i

\* .* : the index after the characters up to the end of the line
SkipToLineEnd(s, i) ==
    LET stops == {k \in i..Len(s) : IsLineTerminator(s[k])}
    IN  IF stops = {} THEN Len(s) + 1 ELSE CHOOSE k \in stops : \A m \in stops : k <= m

\* the value of a digit
DigitValue(c) == CHOOSE n \in 0..9 : ToString(n) = c

\* parseInt(digits, 10)
RECURSIVE ParseInt(_)
ParseInt(digits) ==
    IF digits = <<>> THEN 0
    ELSE 10 * ParseInt(SubSeq(digits, 1, Len(digits) - 1)) + DigitValue(digits[Len(digits)])

\* regex.exec(s) starts at the first index the pattern matches at (0: none)
FirstIndex(hits) ==
    IF hits = {} THEN 0 ELSE CHOOSE i \in hits : \A j \in hits : i <= j

\* line\s+(\d+) from index i on: the whole match and its group 1
LineThenDigits(s, i, k) ==
    IF k > i /\ RunEnd(s, k, Digits) > k
    THEN [found |-> TRUE, all |-> SubSeq(s, i, RunEnd(s, k, Digits) - 1),
          group1 |-> SubSeq(s, k, RunEnd(s, k, Digits) - 1), last |-> RunEnd(s, k, Digits) - 1]
    ELSE [found |-> FALSE]

\* /(?:line\s+(\d+))/ at i
lineMatchesAt(s, i) ==
    IF StartsAt(s, i, LineWord) /\ SkipSpace(s, i + 4) > i + 4
    THEN LineThenDigits(s, i, SkipSpace(s, i + 4))
    ELSE [found |-> FALSE]

\* /line (\d+)/ at i
matchesAt(s, i) ==
    IF StartsAt(s, i, LineWord \o <<" ">>)
    THEN LineThenDigits(s, i, i + 5)
    ELSE [found |-> FALSE]

\* /vyper\.exceptions\.\w+Exception:\s+(?:line\s+(\d+)).*$/m at i
\* (\w+ is followed by `Exception:`, and `:` is no word character, so the
\* word that follows the prefix ends with `Exception` and has more before it)
vyperMatchAt(s, i) ==
    LET w == i + Len(VyperExceptions)
        c == SkipWord(s, w)
        k == SkipSpace(s, c + 1)
    IN  IF /\ StartsAt(s, i, VyperExceptions)
           /\ c - w > Len(ExceptionColon) - 1
           /\ StartsAt(s, c - (Len(ExceptionColon) - 1), ExceptionColon)
           /\ k > c + 1
           /\ lineMatchesAt(s, k).found
        THEN [found |-> TRUE,
              all |-> SubSeq(s, i, SkipToLineEnd(s, lineMatchesAt(s, k).last + 1) - 1),
              group1 |-> lineMatchesAt(s, k).group1]
        ELSE [found |-> FALSE]

\* the three calls of exec: the match at the first index that has one
lineMatchesExec(s) ==
    LET i == FirstIndex({k \in 1..Len(s) : lineMatchesAt(s, k).found})
    IN  IF i = 0 THEN [found |-> FALSE] ELSE lineMatchesAt(s, i)

matchesExec(s) ==
    LET i == FirstIndex({k \in 1..Len(s) : matchesAt(s, k).found})
    IN  IF i = 0 THEN [found |-> FALSE] ELSE matchesAt(s, i)

vyperMatchExec(s) ==
    LET i == FirstIndex({k \in 1..Len(s) : vyperMatchAt(s, k).found})
    IN  IF i = 0 THEN [found |-> FALSE] ELSE vyperMatchAt(s, i)

\* a function that starts from line 0 instead of line 1
extractLineNumberFromZero(msg) ==
    LET lineMatches == lineMatchesExec(msg)
    IN  IF lineMatches.found THEN ParseInt(lineMatches.group1) ELSE 0

extractLineNumber(msg) ==
    LET lineMatches == lineMatchesExec(msg)
    IN  IF lineMatches.found THEN ParseInt(lineMatches.group1) ELSE 1

\* a branch that keeps the line number of extractLineNumber and takes only
\* the message from the signature
vyperBranchMessageOnly(msg, lines) ==
    LET vyperMatch == vyperMatchExec(msg)
    IN  IF vyperMatch.found
        THEN [shortmsg |-> vyperMatch.all, lineNr |-> extractLineNumber(msg)]
        ELSE [shortmsg |-> lines[1], lineNr |-> extractLineNumber(msg)]

\* the else branch of parseErrorMessage
vyperBranch(msg, lines) ==
    LET vyperMatch == vyperMatchExec(msg)
    IN  IF vyperMatch.found
        THEN [shortmsg |-> vyperMatch.all, lineNr |-> ParseInt(vyperMatch.group1)]
        ELSE [shortmsg |-> lines[1], lineNr |-> extractLineNumber(msg)]

\* the branch of parseErrorMessage for `SyntaxError: invalid syntax`
syntaxBranch(msg) ==
    LET matches == matchesExec(msg)
    IN  [shortmsg |-> SyntaxErrorLine,
         lineNr |-> IF matches.found THEN ParseInt(matches.group1)
                    ELSE extractLineNumber(msg)]

\* a parser that looks for the exception signature before the syntax-error
\* line
parseErrorMessageSignatureFirst(msg) ==
    LET lines == SplitLines(msg)
    IN  IF vyperMatchExec(msg).found \/ ~\E n \in 1..Len(lines) : lines[n] = SyntaxErrorLine
        THEN vyperBranch(msg, lines)
        ELSE syntaxBranch(msg)

parseErrorMessage(msg) ==
    LET lines == SplitLines(msg)
    IN  IF \E n \in 1..Len(lines) : lines[n] = SyntaxErrorLine
        THEN syntaxBranch(msg)
        ELSE vyperBranch(msg, lines)

(***************************************************************************)
(* The documents the formatter is run on.                                  *)
(***************************************************************************)
\* every text over alphabet A of at most n characters
Words(A, n) == UNION {[1..k -> A] : k \in 0..n}

\* the longest document that is enumerated character by character
MaxLen == 5

\* identifiers, blanks, line breaks, a comment marker, a quote, an operator
Alphabet == {"a", " ", "\n", "#", "'", "-"}

\* documents of the specification's examples, with the characters that
\* Alphabet leaves out (tabs, digits, commas, double and triple quotes)
Samples ==
    { <<"a", "=", "=", "b">>,
      <<"-", "1">>,
      <<"a", "-", "1">>,
      <<"a", ",", "b", ",", "c">>,
      <<"x", "\t", "=", "1", "e", "-", "1", "0", " ", "\t", "\n", "\n", "\n", "\n", "\n", "y">>,
      <<"s", "=", "\"", "a", "\\", "\"", " ", ",", "b", "\"", " ", "#", "c", "=", "d", "\t">>,
      <<"d", "=", "'", "'", "'", "\n", "\n", "\n", "\n", " ", "\t", "\n", "'", "'", "'", "\n", "\n">>,
      <<"x", "=", "\"", "u", "\n", "y", "=", "0", "x", "f", "f", "*", "2">> }

Documents == Words(Alphabet, MaxLen) \cup Samples

\* how often the document is formatted in a row
MaxCalls == 2

(***************************************************************************)
(* formatBuiltin, one action per numbered step of its body.                *)
(***************************************************************************)
\* init: the collection is created empty, and no compilation has started
InitCompiler ==
    /\ attempts = <<>>
    /\ diagnostics = <<>>

InitParser ==
    /\ errormsg = <<>>
    /\ parsed = [shortmsg |-> <<>>, lineNr |-> 1]
    /\ InitCompiler

InitOn(docs) ==
    /\ text \in docs
    /\ placeholders = <<>>
    /\ maskedText = <<>>
    /\ pc = "start"
    /\ ret = <<>>
    /\ calls = 1
    /\ InitParser

Init == InitOn(Documents)

\* 1. Mask strings and comments
MaskStringsAndComments ==
    /\ pc = "start"
    /\ LET m == MaskStringsFrom(text, 1, <<>>)
       IN  /\ maskedText' = m.masked
           /\ placeholders' = m.table
    /\ pc' = "strings"
    /\ UNCHANGED <<text, ret, calls, errormsg, parsed, attempts, diagnostics>>

\* 2. Mask numbers
MaskNumbers ==
    /\ pc = "strings"
    /\ LET m == MaskNumbersFrom(maskedText, 1, placeholders)
       IN  /\ maskedText' = m.masked
           /\ placeholders' = m.table
    /\ pc' = "numbers"
    /\ UNCHANGED <<text, ret, calls, errormsg, parsed, attempts, diagnostics>>

\* 3. Normalize tabs
Tabs ==
    /\ pc = "numbers"
    /\ maskedText' = NormalizeTabs(maskedText)
    /\ pc' = "tabs"
    /\ UNCHANGED <<text, placeholders, ret, calls, errormsg, parsed, attempts, diagnostics>>

\* Group 1: always binary
PadAlwaysBinary ==
    /\ pc = "tabs"
    /\ maskedText' = safeRegex(maskedText)
    /\ pc' = "safe"
    /\ UNCHANGED <<text, placeholders, ret, calls, errormsg, parsed, attempts, diagnostics>>

\* Group 2: context-sensitive
PadAmbiguous ==
    /\ pc = "safe"
    /\ maskedText' = ambiguousRegex(maskedText)
    /\ pc' = "ambiguous"
    /\ UNCHANGED <<text, placeholders, ret, calls, errormsg, parsed, attempts, diagnostics>>

\* Space after comma
PadCommas ==
    /\ pc = "ambiguous"
    /\ maskedText' = commaRegex(maskedText)
    /\ pc' = "commas"
    /\ UNCHANGED <<text, placeholders, ret, calls, errormsg, parsed, attempts, diagnostics>>

\* 4. Line processing
LineProcessing ==
    /\ pc = "commas"
    /\ maskedText' = ProcessLines(maskedText)
    /\ pc' = "lines"
    /\ UNCHANGED <<text, placeholders, ret, calls, errormsg, parsed, attempts, diagnostics>>

\* 5. Restore placeholders, and return
RestorePlaceholders ==
    /\ pc = "lines"
    /\ ret' = Restore(maskedText, placeholders)
    /\ pc' = "done"
    /\ UNCHANGED <<text, placeholders, maskedText, calls, errormsg, parsed, attempts, diagnostics>>

\* provideDocumentFormattingEdits on the document its last edit produced
FormatAgain ==
    /\ pc = "done"
    /\ calls < MaxCalls
    /\ text' = ret
    /\ placeholders' = <<>>
    /\ maskedText' = <<>>
    /\ ret' = <<>>
    /\ pc' = "start"
    /\ calls' = calls + 1
    /\ UNCHANGED <<errormsg, parsed, attempts, diagnostics>>

Next ==
    \/ MaskStringsAndComments
    \/ MaskNumbers
    \/ Tabs
    \/ PadAlwaysBinary
    \/ PadAmbiguous
    \/ PadCommas
    \/ LineProcessing
    \/ RestorePlaceholders
    \/ FormatAgain

Spec == Init /\ [][Next]_vars

\* Longer documents over fewer characters: comments, line breaks, quotes
\* and one operator.
MaxLenNarrow == 6

NarrowAlphabet == {"#", "\n", "-", "'"}

InitNarrow == InitOn(Words(NarrowAlphabet, MaxLenNarrow))

SpecNarrow == InitNarrow /\ [][Next]_vars

\* Expressions: one operator between two operands, and one operator
\* before its operand.
MaxGap == 2

Gaps == Words({" "}, MaxGap)

BinaryOnlyOperators ==
    { <<"=", "=">>, <<"!", "=">>, <<"<", "=">>, <<">", "=">>, <<"=">>,
      <<"+", "=">>, <<"-", "=">>, <<"*", "=">>, <<"/", "=">>, <<"%", "=">>,
      <<"/", "/">>, <<"-", ">">>, <<"/">>, <<"%">>, <<"<">>, <<">">> }

ArithmeticOperators == { <<"+">>, <<"-">>, <<"*">>, <<"*", "*">> }

LeftOperands == { <<"a">>, <<"1">>, <<"f", "(", ")">>, <<"x", "[", "0", "]">> }

RightOperands == { <<"b">>, <<"1">>, <<"x">> }

BinaryDocuments ==
    { l \o g \o op \o h \o r :
        l \in LeftOperands, g \in Gaps, op \in BinaryOnlyOperators \cup ArithmeticOperators,
        h \in Gaps, r \in RightOperands }

\* what stands before and after a unary expression: nothing (the start of
\* an expression), a bracket, another operator, a comma
UnaryContexts ==
    { << <<>>, <<>> >>,
      << <<"(">>, <<")">> >>,
      << <<"[">>, <<"]">> >>,
      << <<"a", " ", "=", " ">>, <<>> >>,
      << <<"a", " ", "*", " ">>, <<>> >>,
      << <<"f", "(", "a", ",", " ">>, <<")">> >> }

\* ... or a keyword
KeywordContexts ==
    { << <<"r", "e", "t", "u", "r", "n", " ">>, <<>> >>,
      << <<"a", " ", "i", "f", " ", "b", " ", "e", "l", "s", "e", " ">>, <<>> >> }

UnaryDocuments ==
    { c[1] \o op \o r \o c[2] :
        c \in UnaryContexts \cup KeywordContexts, op \in ArithmeticOperators,
        r \in RightOperands }

InitOps == InitOn(BinaryDocuments \cup UnaryDocuments)

SpecOps == InitOps /\ [][Next]_vars


(***************************************************************************)
(* The error texts the parser is run on: the pieces a compiler's output is *)
(* made of, put together in every order.                                   *)
(***************************************************************************)
StructureSignature ==
    VyperExceptions \o <<"S", "t", "r", "u", "c", "t", "u", "r", "e">> \o ExceptionColon
    \o <<" ">> \o LineWord \o <<" ", "7", " ", "b", "a", "d">>

ErrorPieces ==
    { SyntaxErrorLine,
      <<"\n">>,
      StructureSignature,
      LineWord \o <<" ", "1", "2">>,
      LineWord \o <<" ", " ", "5">> }

\* the most pieces an error text is made of
MaxPieces == 5

\* error texts with what the pieces leave out: a signature after `Error: `
\* on its line, a word that ends with `line`, `line` without a number, a
\* signature without a line number, a signature whose class is `Exception`
\* alone, a signature broken over two lines, a tab after `line`
ErrorSamples ==
    { <<"E", "r", "r", "o", "r", ":", " ">> \o StructureSignature,
      LineWord \o <<" ", "3", "\n", "E", "r", "r", "o", "r", ":", " ">> \o StructureSignature \o <<"\n", "a", "t", " ", "x">>,
      <<"o", "u", "t">> \o LineWord \o <<" ", "3", "0", "7", "x">>,
      LineWord \o <<" ", "x", "\n">> \o LineWord \o <<"9">>,
      VyperExceptions \o <<"T">> \o ExceptionColon \o <<" ", "b", "a", "d", "\n", " ">> \o LineWord \o <<"\t", "4">>,
      VyperExceptions \o ExceptionColon \o <<" ">> \o LineWord \o <<" ", "8">>,
      <<"x", " ">> \o VyperExceptions \o <<"A", "_", "1">> \o ExceptionColon \o <<"\n", " ">> \o LineWord
          \o <<"\t", "4", "0", " ", "z", "\r", "\n">> \o LineWord \o <<" ", "1", "2">>,
      <<"a", "t", " ">> \o LineWord \o <<"\t", "2", "\n">> \o SyntaxErrorLine \o <<"\n", " ", " ">> \o LineWord \o <<" ", "1", "2">>,
      <<"a", "t", " ">> \o LineWord \o <<"\t", "2", "\r", "\n">> \o SyntaxErrorLine }

ErrorTexts == {Flatten(w) : w \in Words(ErrorPieces, MaxPieces)} \cup ErrorSamples

InitErr ==
    /\ errormsg \in ErrorTexts
    /\ parsed = [shortmsg |-> <<>>, lineNr |-> 1]
    /\ pc = "error"
    /\ text = <<>>
    /\ placeholders = <<>>
    /\ maskedText = <<>>
    /\ ret = <<>>
    /\ calls = 0
    /\ InitCompiler

\* const { shortmsg, lineNr } = parseErrorMessage(errorString)
ParseErrorMessage ==
    /\ pc = "error"
    /\ parsed' = parseErrorMessage(errormsg)
    /\ pc' = "parsed"
    /\ UNCHANGED <<text, placeholders, maskedText, ret, calls, errormsg, attempts, diagnostics>>

NextErr == ParseErrorMessage

SpecErr == InitErr /\ [][NextErr]_vars

(***************************************************************************)
(* Range formatting.  provideDocumentRangeFormattingEdits of               *)
(* features/formatter.js formats the text of the range with formatBuiltin  *)
(* and replaces the range when the text has changed.  The repository also  *)
(* holds a formatter.js whose formatBuiltin normalizes whitespace only.    *)
(***************************************************************************)
\* the loop of the whitespace-only formatBuiltin: a line is blank when it
\* is empty
RECURSIVE CollapseEmpty(_, _)
CollapseEmpty(lines, blankCount) ==
    IF lines = <<>> THEN <<>>
    ELSE IF Head(lines) = <<>>
         THEN (IF blankCount + 1 <= MaxBlankLines THEN <<Head(lines)>> ELSE <<>>)
              \o CollapseEmpty(Tail(lines), blankCount + 1)
         ELSE <<Head(lines)>> \o CollapseEmpty(Tail(lines), 0)

\* formatBuiltin of the whitespace-only formatter.js
formatBuiltinWhitespace(t) ==
    LET split == SplitLines(t)
        lines == [n \in 1..Len(split) |-> TrimEnd(NormalizeTabs(split[n]))]
    IN  Join(PopBlank(CollapseEmpty(lines, 0))) \o <<"\n">>

\* the ranges: the documents, and ranges with tabs and trailing blanks
RangeSamples ==
    { <<"\t", "a", " ", "\t", "\n", "\n", "\n", "\n", "b", " ">>,
      <<"a", "\t", "\r", "\n", " ", "\n">>,
      <<"x", "=", "1", "\t", "\n">>,
      <<"f", "(", "a", ",", "b", ")", " ", "\n">> }

InitRange ==
    /\ text \in Documents \cup RangeSamples
    /\ placeholders = <<>>
    /\ maskedText = <<>>
    /\ pc = "range"
    /\ ret = <<>>
    /\ calls = 0
    /\ InitParser

\* provideDocumentRangeFormattingEdits: ret is the text the edits leave in
\* the range, and pc tells whether there is an edit
ProvideDocumentRangeFormattingEdits ==
    /\ pc = "range"
    /\ LET formatted == formatBuiltin(text)
       IN  /\ ret' = formatted
           /\ pc' = IF formatted = text THEN "unchanged" ELSE "replaced"
    /\ calls' = calls + 1
    /\ UNCHANGED <<text, placeholders, maskedText, errormsg, parsed, attempts, diagnostics>>

NextRange == ProvideDocumentRangeFormattingEdits

SpecRange == InitRange /\ [][NextRange]_vars

(***************************************************************************)
(* compileActiveFileCommand for one resource (features/compile.js).  A     *)
(* call runs to `await compileActiveFile(contractFile)` and is resumed     *)
(* when the compiler process has ended; what follows the await has no      *)
(* await of its own and runs in one piece.  The saves and opens of a       *)
(* document start the calls (extension.js), one after the other and        *)
(* without waiting for the calls before.                                   *)
(***************************************************************************)
\* the most calls that are started
MaxAttempts == 3

\* what the catch block receives as String(errormsg)
CompileErrors ==
    { StructureSignature,
      SyntaxErrorLine \o <<"\n", " ", " ">> \o LineWord \o <<" ", "1", "2">>,
      VyperExceptions \o <<"A">> \o ExceptionColon \o <<" ">> \o LineWord \o <<" ", "0">>,
      <<"E", "r", "r", "o", "r", ":", " ", "N", "o", "t", " ", "a", " ", "v", "y", "p", "e", "r", " ",
        "s", "o", "u", "r", "c", "e", " ", "f", "i", "l", "e">> }

\* the record that is handed to diagnosticCollections.compiler.set
Diagnostic(errorString) ==
    LET result == parseErrorMessage(errorString)
    IN  [code |-> <<>>,
         message |-> result.shortmsg,
         range |-> [start |-> [line |-> result.lineNr - 1, character |-> 0],
                    end |-> [line |-> result.lineNr - 1, character |-> 255]],
         severity |-> "Error",
         source |-> errorString,
         relatedInformation |-> <<>>]

InitCompile ==
    /\ InitParser
    /\ pc = "idle"
    /\ text = <<>>
    /\ placeholders = <<>>
    /\ maskedText = <<>>
    /\ ret = <<>>
    /\ calls = 0

\* onDidSave, or the command: the call runs to its await
StartCompile ==
    /\ Len(attempts) < MaxAttempts
    /\ attempts' = Append(attempts, [status |-> "awaiting", errorString |-> <<>>])
    /\ UNCHANGED <<text, placeholders, maskedText, pc, ret, calls, errormsg, parsed, diagnostics>>

\* the await returns: the records of the resource are deleted
CompileSucceeds(a) ==
    /\ attempts[a].status = "awaiting"
    /\ attempts' = [attempts EXCEPT ![a].status = "succeeded"]
    /\ diagnostics' = <<>>
    /\ UNCHANGED <<text, placeholders, maskedText, pc, ret, calls, errormsg, parsed>>

\* the await throws: the records of the resource are deleted and the record
\* of this error is set
CompileFails(a, errorString) ==
    /\ attempts[a].status = "awaiting"
    /\ attempts' = [attempts EXCEPT ![a] = [status |-> "failed", errorString |-> errorString]]
    /\ errormsg' = errorString
    /\ parsed' = parseErrorMessage(errorString)
    /\ diagnostics' = <<Diagnostic(errorString)>>
    /\ UNCHANGED <<text, placeholders, maskedText, pc, ret, calls>>

NextCompile ==
    \/ StartCompile
    \/ \E a \in 1..Len(attempts) : CompileSucceeds(a)
    \/ \E a \in 1..Len(attempts), errorString \in CompileErrors : CompileFails(a, errorString)

SpecCompile == InitCompile /\ [][NextCompile]_vars

(***************************************************************************)
(* Vocabulary of the properties of the formatter.                          *)
(***************************************************************************)
\* the lines of a text: the pieces between line feeds, without the empty
\* piece that follows a final line feed
RECURSIVE PiecesFrom(_, _, _)
PiecesFrom(s, i, piece) ==
    IF i > Len(s) THEN <<piece>>
    ELSE IF s[i] = "\n" THEN <<piece>> \o PiecesFrom(s, i + 1, <<>>)
    ELSE PiecesFrom(s, i + 1, Append(piece, s[i]))

LinesOf(s) ==
    LET pieces == PiecesFrom(s, 1, <<>>)
    IN  IF pieces[Len(pieces)] = <<>> THEN SubSeq(pieces, 1, Len(pieces) - 1) ELSE pieces

\* the length of the longest run of consecutive blank lines of a text
BlankRunAt(lines, n) ==
    IF ~IsBlank(lines[n]) THEN 0
    ELSE LET stops == {m \in n..Len(lines) : ~IsBlank(lines[m])}
         IN  IF stops = {} THEN Len(lines) - n + 1
             ELSE (CHOOSE m \in stops : \A k \in stops : m <= k) - n

LongestBlankRun(s) ==
    LET lines == LinesOf(s)
        runs == {BlankRunAt(lines, n) : n \in 1..Len(lines)} \cup {0}
    IN  CHOOSE r \in runs : \A q \in runs : q <= r

\* the lines of a text that end with a space or a tab
EndsWithBlank(line) == line # <<>> /\ line[Len(line)] \in {" ", "\t"}

TrailingBlankLines(s) == {n \in 1..Len(LinesOf(s)) : EndsWithBlank(LinesOf(s)[n])}

\* the string and comment literals the masking pass recognizes in a text
RecognizedLiterals(t) == MaskStringsFrom(t, 1, <<>>).table

\* whether the texts of lits stand in s from index `from` on, one after
\* the other in this order (each taken at its first possible place)
RECURSIVE OccurInOrder(_, _, _)
OccurInOrder(s, from, lits) ==
    IF lits = <<>> THEN TRUE
    ELSE LET places == {p \in from..Len(s) : StartsAt(s, p, Head(lits))}
         IN  /\ places # {}
             /\ OccurInOrder(s, (CHOOSE p \in places : \A q \in places : p <= q)
                                + Len(Head(lits)), Tail(lits))

Returned == pc = "done"

(***************************************************************************)
(* C1.  formatBuiltin is idempotent: formatting the text a call returned   *)
(* returns that text unchanged.                                            *)
(***************************************************************************)
C1_Idempotent == (Returned /\ calls = 2) => ret = text

(***************************************************************************)
(* C2.  Every string literal and line comment that the masking pass        *)
(* recognizes in the input stands byte for byte in the output, in the      *)
(* order of the input.                                                     *)
(***************************************************************************)
C2_LiteralsPreserved == Returned => OccurInOrder(ret, 1, RecognizedLiterals(text))

\* a call that changed the spacing of a document holding a comment and a
\* string, both with blanks of their own
C2_Witness ==
    /\ Returned
    /\ ret # text \o <<"\n">>
    /\ \E i, j \in 1..Len(RecognizedLiterals(text)) :
          /\ i # j
          /\ RecognizedLiterals(text)[i][1] = "#"
          /\ RecognizedLiterals(text)[j][1] # "#"
          /\ \E k \in 1..Len(RecognizedLiterals(text)[i]) : IsSpace(RecognizedLiterals(text)[i][k])
          /\ \E k \in 1..Len(RecognizedLiterals(text)[j]) : IsSpace(RecognizedLiterals(text)[j][k])

(***************************************************************************)
(* C3.  As claimed: the output never holds more than 2 consecutive blank   *)
(* lines.                                                                  *)
(***************************************************************************)
C3_AtMostTwoBlankLines == Returned => LongestBlankRun(ret) <= MaxBlankLines

(***************************************************************************)
(* C3, amended.  The text before the placeholders are restored never       *)
(* holds more than 2 consecutive blank lines, and a longer run of blank    *)
(* lines in the output lies inside a literal restored verbatim: it is no   *)
(* longer than the longest run inside one of the recognized literals.      *)
(***************************************************************************)
C3_BlankRunsOnlyInsideLiterals ==
    Returned =>
        /\ LongestBlankRun(maskedText) <= MaxBlankLines
        /\ \/ LongestBlankRun(ret) <= MaxBlankLines
           \/ \E i \in 1..Len(placeholders) :
                 LongestBlankRun(ret) <= LongestBlankRun(placeholders[i])

\* an output with 3 blank lines in a row
C3_Witness == Returned /\ LongestBlankRun(ret) >= 3

(***************************************************************************)
(* C4.  formatBuiltin never fails (no step reads the placeholder table     *)
(* outside its entries, so that no token is restored as `undefined`), and  *)
(* what it returns ends with exactly one line feed; for the empty text it  *)
(* returns a single line feed.                                             *)
(***************************************************************************)
C4_EndsWithOneNewline ==
    /\ \A k \in 1..Len(maskedText) :
          IsPlaceholder(maskedText[k]) => PlaceholderIndex(maskedText[k]) < Len(placeholders)
    /\ Returned =>
          /\ ret # <<>>
          /\ ret[Len(ret)] = "\n"
          /\ Len(ret) >= 2 => ret[Len(ret) - 1] # "\n"
          /\ text = <<>> => ret = <<"\n">>

\* a call on a text of blanks and line feeds only, and more than one of them
C4_Witness == Returned /\ Len(text) >= 2 /\ IsBlank(text) /\ ret = <<"\n">>

(***************************************************************************)
(* C5.  As claimed: no line of the output ends with a space or a tab.      *)
(***************************************************************************)
C5_NoTrailingWhitespace == Returned => TrailingBlankLines(ret) = {}

(***************************************************************************)
(* C5, amended.  No line of the text before the placeholders are restored  *)
(* ends with a space or a tab, and a line of the output ends with one only *)
(* where a recognized literal has a line that does.                        *)
(***************************************************************************)
C5_TrailingWhitespaceOnlyInsideLiterals ==
    Returned =>
        /\ TrailingBlankLines(maskedText) = {}
        /\ TrailingBlankLines(ret) # {} =>
              \E i \in 1..Len(placeholders) : TrailingBlankLines(placeholders[i]) # {}

\* a call that stripped the blanks at the end of one line and returned
\* another line that ends with a blank
C5_Witness ==
    /\ Returned
    /\ TrailingBlankLines(ret) # {}
    /\ Cardinality(TrailingBlankLines(text)) > Cardinality(TrailingBlankLines(ret))


(***************************************************************************)
(* C6.  Every binary-only operator of the fixed list that stands between   *)
(* two operands comes out unbroken, with exactly one space on each side.   *)
(***************************************************************************)
C6_BinaryOnlyOperatorsPadded ==
    Returned =>
        \A l \in LeftOperands, r \in RightOperands, op \in BinaryOnlyOperators, g, h \in Gaps :
            text = l \o g \o op \o h \o r => ret = l \o <<" ">> \o op \o <<" ">> \o r \o <<"\n">>

(***************************************************************************)
(* C7.  An arithmetic operator between two operands is padded with one     *)
(* space on each side, and one used as a unary prefix (at the start of an  *)
(* expression, after an opening bracket, another operator, a comma or a    *)
(* keyword) gets no space between it and its operand: such an expression,  *)
(* already spaced, comes out as it went in.                                *)
(***************************************************************************)
C7_UnaryAndBinaryDistinguished ==
    Returned =>
        /\ \A l \in LeftOperands, r \in RightOperands, op \in ArithmeticOperators, g, h \in Gaps :
              text = l \o g \o op \o h \o r => ret = l \o <<" ">> \o op \o <<" ">> \o r \o <<"\n">>
        /\ text \in UnaryDocuments => ret = text \o <<"\n">>


(***************************************************************************)
(* Vocabulary of the properties of the parser.  It is stated on the error  *)
(* text alone, by the places of its characters.                            *)
(***************************************************************************)
Parsed == pc = "parsed"

\* the start of a `line <N>` token: the word `line`, blanks (exactly one
\* space when `strict`), and a digit
IsLineToken(s, i, strict) ==
    /\ StartsAt(s, i, LineWord)
    /\ \E j \in (i + Len(LineWord) + 1)..Len(s) :
          /\ \A k \in (i + Len(LineWord))..(j - 1) : IsSpace(s[k])
          /\ s[j] \in Digits
          /\ strict => (j = i + Len(LineWord) + 1 /\ s[j - 1] = " ")

LineTokens(s, strict) == {i \in 1..Len(s) : IsLineToken(s, i, strict)}

First(starts) == CHOOSE i \in starts : \A j \in starts : i <= j

\* the digits of the token at i, from the first to the last, and its N
NumberStart(s, i) == CHOOSE j \in (i + Len(LineWord) + 1)..Len(s) : s[j] \in Digits /\ \A k \in (i + Len(LineWord) + 1)..j : k < j => s[k] \notin Digits

NumberEnd(s, i) ==
    CHOOSE k \in NumberStart(s, i)..Len(s) :
        /\ \A m \in NumberStart(s, i)..k : s[m] \in Digits
        /\ At(s, k + 1) \notin Digits

NumberOf(s, i) == ParseInt(SubSeq(s, NumberStart(s, i), NumberEnd(s, i)))

\* the start of an exception signature: `vyper.exceptions.`, a class name
\* that ends with `Exception` (and is longer), a colon, blanks, and a
\* `line <N>` token; SignatureToken is the start of that token
IsSignatureWith(s, i, t) ==
    /\ StartsAt(s, i, VyperExceptions)
    /\ \E c \in (i + Len(VyperExceptions) + Len(ExceptionColon))..(t - 2) :
          /\ \A k \in (i + Len(VyperExceptions))..(c - 1) : IsWord(s[k])
          /\ StartsAt(s, c - Len(ExceptionColon) + 1, ExceptionColon)
          /\ \A k \in (c + 1)..(t - 1) : IsSpace(s[k])

Signatures(s) ==
    LET tokens == LineTokens(s, FALSE)
    IN  {i \in 1..Len(s) : StartsAt(s, i, VyperExceptions) /\ \E t \in tokens : IsSignatureWith(s, i, t)}

SignatureToken(s, i) == CHOOSE t \in LineTokens(s, FALSE) : IsSignatureWith(s, i, t)

\* the index of the first and of the last character of the line that holds
\* index i (a line ends before a line feed or a carriage return)
LineStart(s, i) ==
    LET breaks == {k \in 1..(i - 1) : IsLineTerminator(s[k])}
    IN  IF breaks = {} THEN 1 ELSE (CHOOSE k \in breaks : \A m \in breaks : m <= k) + 1

LineEnd(s, i) ==
    LET breaks == {k \in i..Len(s) : IsLineTerminator(s[k])}
    IN  IF breaks = {} THEN Len(s) ELSE (CHOOSE k \in breaks : \A m \in breaks : k <= m) - 1

\* the first line of an error text: it ends before the first line feed, and
\* before the carriage return that precedes it
FirstLine(s) ==
    LET feeds == {k \in 1..Len(s) : s[k] = "\n"}
        e == IF feeds = {} THEN Len(s) ELSE First(feeds) - 1
    IN  IF feeds # {} /\ At(s, e) = "\r" THEN SubSeq(s, 1, e - 1) ELSE SubSeq(s, 1, e)

\* a line of the text is exactly `SyntaxError: invalid syntax`: the text
\* stands after a line feed (or first) and before a line feed, which a
\* carriage return may precede (or last)
HasSyntaxErrorLine(s) ==
    \E i \in 1..Len(s) :
        /\ StartsAt(s, i, SyntaxErrorLine)
        /\ i = 1 \/ s[i - 1] = "\n"
        /\ LET e == i + Len(SyntaxErrorLine)
           IN  \/ e > Len(s)
               \/ s[e] = "\n"
               \/ s[e] = "\r" /\ At(s, e + 1) = "\n"

(***************************************************************************)
(* C8.  The syntax-error rule comes first: when a line of the error text   *)
(* is exactly `SyntaxError: invalid syntax`, the message is that fixed     *)
(* text, and the line number is the N of the first `line <N>` token (the   *)
(* word, one space, the number) anywhere in the text, whatever exception   *)
(* signature the text holds.  Where the text has no such token the number  *)
(* is that of the first `line`, blanks, `<N>`, and 1 without any.          *)
(***************************************************************************)
C8_SyntaxErrorFirst ==
    (Parsed /\ HasSyntaxErrorLine(errormsg)) =>
        /\ parsed.shortmsg = SyntaxErrorLine
        /\ parsed.lineNr =
              IF LineTokens(errormsg, TRUE) # {}
              THEN NumberOf(errormsg, First(LineTokens(errormsg, TRUE)))
              ELSE IF LineTokens(errormsg, FALSE) # {}
              THEN NumberOf(errormsg, First(LineTokens(errormsg, FALSE)))
              ELSE 1

\* a text with the syntax-error line, a signature, and before both a
\* `line <N>` token with another number than the signature's
C8_Witness ==
    /\ Parsed
    /\ HasSyntaxErrorLine(errormsg)
    /\ \E g \in Signatures(errormsg) :
          /\ First(LineTokens(errormsg, TRUE)) < g
          /\ NumberOf(errormsg, SignatureToken(errormsg, g)) # parsed.lineNr
    /\ parsed.lineNr = NumberOf(errormsg, First(LineTokens(errormsg, TRUE)))

(***************************************************************************)
(* C9.  As claimed: without a syntax-error line, a text with an exception  *)
(* signature (written on one line) gives the whole line that holds the     *)
(* signature as the message, and the signature's N as the line number.     *)
(***************************************************************************)
C9_WholeLineOfSignature ==
    (Parsed /\ ~HasSyntaxErrorLine(errormsg) /\ Signatures(errormsg) # {}) =>
        LET g == First(Signatures(errormsg))
            t == SignatureToken(errormsg, g)
        IN  LineStart(errormsg, g) = LineStart(errormsg, t) =>
               /\ parsed.shortmsg = SubSeq(errormsg, LineStart(errormsg, g), LineEnd(errormsg, g))
               /\ parsed.lineNr = NumberOf(errormsg, t)

(***************************************************************************)
(* C9, amended.  Without a syntax-error line, a text with an exception     *)
(* signature gives as the message the text from the start of the first     *)
(* signature (`vyper.exceptions.`) to the end of the line that holds the   *)
(* signature's `line <N>`, without what stands before the signature on its *)
(* line, and the signature's N as the line number.                         *)
(***************************************************************************)
C9_FromSignatureToLineEnd ==
    (Parsed /\ ~HasSyntaxErrorLine(errormsg) /\ Signatures(errormsg) # {}) =>
        LET g == First(Signatures(errormsg))
            t == SignatureToken(errormsg, g)
        IN  /\ parsed.shortmsg = SubSeq(errormsg, g, LineEnd(errormsg, t))
            /\ parsed.lineNr = NumberOf(errormsg, t)

\* a signature with text before it on its line, after an earlier
\* `line <M>` token with another number
C9_Witness ==
    /\ Parsed
    /\ ~HasSyntaxErrorLine(errormsg)
    /\ Signatures(errormsg) # {}
    /\ LineStart(errormsg, First(Signatures(errormsg))) < First(Signatures(errormsg))
    /\ First(LineTokens(errormsg, FALSE)) < First(Signatures(errormsg))
    /\ NumberOf(errormsg, First(LineTokens(errormsg, FALSE))) # parsed.lineNr

(***************************************************************************)
(* C10.  parseErrorMessage returns for every text, and without a           *)
(* syntax-error line and an exception signature it returns the first line  *)
(* of the text as the message and, as the line number, the N of the first  *)
(* `line`, blanks, `<N>` anywhere in the text, or 1 without any.           *)
(***************************************************************************)
C10_FallbackFirstLine ==
    Parsed =>
        /\ parsed.lineNr \in Nat
        /\ (~HasSyntaxErrorLine(errormsg) /\ Signatures(errormsg) = {}) =>
              /\ parsed.shortmsg = FirstLine(errormsg)
              /\ parsed.lineNr =
                    IF LineTokens(errormsg, FALSE) # {}
                    THEN NumberOf(errormsg, First(LineTokens(errormsg, FALSE)))
                    ELSE 1

\* a text of several lines whose first line has no `line <N>` and whose
\* number is not 1
C10_Witness ==
    /\ Parsed
    /\ ~HasSyntaxErrorLine(errormsg)
    /\ Signatures(errormsg) = {}
    /\ Len(FirstLine(errormsg)) < Len(errormsg)
    /\ LineTokens(errormsg, FALSE) # {}
    /\ First(LineTokens(errormsg, FALSE)) > Len(FirstLine(errormsg))
    /\ parsed.lineNr > 1


(***************************************************************************)
(* C11.  The line number of a diagnostic is a line number that counts from *)
(* 1: parseErrorMessage returns an integer that is 1 or more for every     *)
(* error text, and no record of the collection has a range with a negative *)
(* line, also for an error text that holds `line 0`.                       *)
(***************************************************************************)
C11_LineNumberAtLeastOne ==
    /\ \A a \in 1..Len(attempts) :
          attempts[a].status = "failed" => parseErrorMessage(attempts[a].errorString).lineNr >= 1
    /\ \A d \in 1..Len(diagnostics) :
          /\ diagnostics[d].range.start.line >= 0
          /\ diagnostics[d].range.end.line >= 0

(***************************************************************************)
(* C12.  The text that range formatting produces for a range is the        *)
(* result of the whitespace-only formatting of the text of the range:      *)
(* tabs to 4 spaces, trailing whitespace stripped, blank lines collapsed,  *)
(* and no spacing of operators or commas.                                  *)
(***************************************************************************)
C12_RangeWhitespaceOnly ==
    pc \in {"unchanged", "replaced"} => ret = formatBuiltinWhitespace(text)

(***************************************************************************)
(* C13.  Once every call of compileActiveFileCommand that was started for  *)
(* the resource has completed, the collection holds the outcome of the     *)
(* call that started last: no record when it succeeded, and the one record *)
(* of its error when it failed, also when the calls overlap in time.       *)
(***************************************************************************)
AllCompleted == attempts # <<>> /\ \A a \in 1..Len(attempts) : attempts[a].status # "awaiting"

StartedLast == attempts[Len(attempts)]

C13_OutcomeOfLastStarted ==
    AllCompleted =>
        IF StartedLast.status = "succeeded"
        THEN diagnostics = <<>>
        ELSE diagnostics = <<Diagnostic(StartedLast.errorString)>>

(***************************************************************************)
(* C14.  formatBuiltin keeps the lines of the code outside strings and     *)
(* comments: the lines of the output that are not blank are as many as     *)
(* those of the input, in the same order, and each has the indentation of  *)
(* its input line (a tab counted as 4 spaces).  The lines are taken from   *)
(* the text with each string and comment as one token, so that a line      *)
(* break inside a string ends no line.                                     *)
(***************************************************************************)
NonBlankLines(s) ==
    LET lines == LinesOf(s)
    IN  SelectSeq(lines, LAMBDA line : ~IsBlank(line))

\* the whitespace a line starts with
Indentation(line) ==
    LET rest == {k \in 1..Len(line) : ~IsSpace(line[k])}
    IN  IF rest = {} THEN line
        ELSE SubSeq(line, 1, (CHOOSE k \in rest : \A m \in rest : k <= m) - 1)

C14_LineStructureKept ==
    Returned =>
        LET before == NonBlankLines(MaskStringsFrom(text, 1, <<>>).masked)
            after == NonBlankLines(maskedText)
        IN  /\ Len(after) = Len(before)
            /\ \A n \in 1..Len(after) :
                  Indentation(after[n]) = NormalizeTabs(Indentation(before[n]))

=============================================================================
